---- MODULE Spec2Model ----
(***************************************************************************)
(* Model of the "magic teddy bear" voice assistant.                        *)
(*                                                                         *)
(*   - the relay bridge of src/server.js: the POST /process-audio handler  *)
(*     and processAudioWithOpenAI, one upstream WebSocket session per      *)
(*     request, driven by the socket's open / message / error / close      *)
(*     events and by the connectionTimeout timer;                          *)
(*   - the browser client of src/unnamed/part_000: the voice-activity      *)
(*     segmenter (startListening / onaudioprocess / stopListening) and the *)
(*     round trip of an utterance (sendAudioToServer / playAudioResponse). *)
(*                                                                         *)
(* Spec and FairSpec are the relay bridge with one request and PairSpec is  *)
(* the bridge with two concurrent requests.  ClientSpec is the browser      *)
(* client, SegmenterSpec its segmenter with every kind of frame, and        *)
(* RoundTripSpec one listening session with fair round trips.  Each         *)
(* specification leaves the other component's variables untouched.          *)
(***************************************************************************)
EXTENDS Integers, Sequences, FiniteSets, TLC

VARIABLES
    (* ---- relay bridge, one entry per request (src/server.js) ---- *)
    reqAudio,             \* req.body.audio of the request
    handler,              \* position of the async route handler
    httpResponses,        \* the responses written on res, in order
    wsCreated,            \* number of "new WebSocket" calls made for the request
    audioBuffer,          \* Buffer.from(audio, 'base64'): the decoded bytes
    readyState,           \* ws.readyState
    established,          \* the socket has emitted 'open'
    errorEmitted,         \* the socket has emitted 'error'
    closeCalls,           \* the codes of the ws.close(code, ...) calls, in order
    responseAudioChunks,  \* let responseAudioChunks = []
    isSessionConfigured,  \* let isSessionConfigured = false
    hasReceivedData,      \* let hasReceivedData = false
    connectionTimeout,    \* the setTimeout timer
    promise,              \* the promise returned by processAudioWithOpenAI
    sent,                 \* the messages ws.send put on the wire, in order
    rxFragments,          \* history: delta payloads delivered so far, in order
    rxCreated,            \* history: number of session.created events delivered
    rxDoneAt,             \* history: fragments delivered before the first response.done (-1: none yet)
    msgCount,             \* total number of upstream messages delivered
    (* ---- browser client (src/unnamed/part_000) ---- *)
    isListening,          \* let isListening = false
    isSpeaking,           \* let isSpeaking = false (the busy flag)
    recordingBuffer,      \* let recordingBuffer = []: the accumulated frames
    lastSpeechTime,       \* let lastSpeechTime = 0
    now,                  \* Date.now() at the latest frame callback
    frameCount,           \* number of frame callbacks delivered
    audioContext,         \* let audioContext: 0 (unset) or the context it refers to
    mediaStream,          \* let mediaStream: 0 (unset) or the stream it refers to
    scriptProcessor,      \* let scriptProcessor: 0 (unset) or the node it refers to
    contexts,             \* state of the AudioContext created by each start call
    streams,              \* state of the MediaStream acquired by each start call
    nodes,                \* the ScriptProcessorNode created by each start call
    starts,               \* position of each startListening call
    trips                 \* the round trips started by sendAudioToServer, in order

relayVars == <<reqAudio, handler, httpResponses, wsCreated, audioBuffer,
               readyState, established, errorEmitted, closeCalls,
               responseAudioChunks, isSessionConfigured, hasReceivedData,
               connectionTimeout, promise, sent, rxFragments, rxCreated,
               rxDoneAt, msgCount>>

clientVars == <<isListening, isSpeaking, recordingBuffer, lastSpeechTime, now,
                frameCount, audioContext, mediaStream, scriptProcessor,
                contexts, streams, nodes, starts, trips>>

vars == <<relayVars, clientVars>>

-----------------------------------------------------------------------------
(* Bounds of the model.                                                    *)

\* Upper bound on the number of upstream messages delivered in a run.
MaxMsgs == 4

\* The concurrent requests of a run (each gets its own relay session).
Requests == {"r1", "r2"}

\* Upper bound on the number of audio-frame callbacks delivered in a run.
MaxFrames == 6

\* Upper bound on the number of utterances handed to sendAudioToServer.
MaxUtterances == 3

\* Upper bound on the number of startListening calls that pass the
\* isListening check.
MaxStarts == 2

\* Number of frames of the frame sequences fed to two listening cycles.
ScriptLen == 2

-----------------------------------------------------------------------------
(* Base64 transport encoding (server.js:47 and :126).  Text is a sequence  *)
(* of characters; the four characters of a quantum decode to three bytes.  *)
(* Node's decoder skips characters outside the alphabet.  The inputs of    *)
(* the model are whole quanta, so a trailing partial quantum is not        *)
(* modelled.                                                               *)

B64Alphabet == {"Q", "U", "J", "D"}

\* value of a base64 digit
B64Value(c) == CASE c = "Q" -> 16 [] c = "U" -> 20 [] c = "J" -> 9 [] c = "D" -> 3
                 [] OTHER -> 0

\* base64 digit of a 6-bit value
B64Digit(v) == CASE v = 16 -> "Q" [] v = 20 -> "U" [] v = 9 -> "J" [] v = 3 -> "D"
                 [] OTHER -> "A"

RECURSIVE DecodeQuanta(_)
DecodeQuanta(s) ==
    IF Len(s) < 4 THEN <<>>
    ELSE LET n == B64Value(s[1]) * 262144 + B64Value(s[2]) * 4096
                  + B64Value(s[3]) * 64 + B64Value(s[4])
         IN  <<n \div 65536, (n \div 256) % 256, n % 256>>
             \o DecodeQuanta(SubSeq(s, 5, Len(s)))

\* Buffer.from(text, 'base64')
BufferFromBase64(text) ==
    DecodeQuanta(SelectSeq(text, LAMBDA c : c \in B64Alphabet))

RECURSIVE EncodeTriples(_)
EncodeTriples(b) ==
    IF Len(b) < 3 THEN <<>>
    ELSE LET n == b[1] * 65536 + b[2] * 256 + b[3]
         IN  <<B64Digit(n \div 262144), B64Digit((n \div 4096) % 64),
               B64Digit((n \div 64) % 64), B64Digit(n % 64)>>
             \o EncodeTriples(SubSeq(b, 4, Len(b)))

\* buffer.toString('base64')
BufferToBase64(b) == EncodeTriples(b)

-----------------------------------------------------------------------------
(* Inputs.                                                                 *)

\* req.body.audio: absent, the empty string, canonical base64, and base64
\* with a line break in it.
Absent == [present |-> FALSE, text |-> <<>>]
Audio(t) == [present |-> TRUE, text |-> t]
AudioInputs == { Absent, Audio(<<>>), Audio(<<"Q", "U", "J", "D">>),
                 Audio(<<"Q", "U", "\n", "J", "D">>) }

\* Mutant of Truthy: only a missing field is refused (audio === undefined).
TruthyIfPresent(a) == a.present

\* JavaScript truthiness of req.body.audio (server.js:39)
Truthy(a) == a.present /\ a.text # <<>>

\* An upstream message: json says whether JSON.parse succeeds; absent
\* fields are "" (falsy, like undefined).
Event(t, d, m, r) == [json |-> TRUE, type |-> t, delta |-> d, message |-> m, reason |-> r]
Unparseable == [json |-> FALSE, type |-> "", delta |-> "", message |-> "", reason |-> ""]

UpstreamMessages ==
    { Event("session.created", "", "", ""),
      Event("response.audio.delta", "AAA", "", ""),
      Event("response.audio.delta", "BBB", "", ""),
      Event("response.audio.delta", "", "", ""),
      Event("response.text.delta", "hi", "", ""),
      Event("response.done", "", "", ""),
      Event("error", "", "rate_limited", ""),
      Event("error", "", "", "quota"),
      Event("session.error", "", "", ""),
      Event("rate_limits.updated", "", "", ""),
      Unparseable }

\* err.message of the errors a socket emits
SocketErrors == { "ECONNRESET", "Unexpected server response: 401" }

-----------------------------------------------------------------------------
(* Relay bridge: helpers.                                                  *)

\* The promise of processAudioWithOpenAI (server.js:78).
Pending == [state |-> "pending", value |-> ""]
NoPromise == [state |-> "none", value |-> ""]
Resolved(v) == [state |-> "resolved", value |-> v]
Rejected(msg) == [state |-> "rejected", value |-> msg]

\* Mutant of Settle: the last call wins, as with a plain result variable.
SettleLast(p, outcome) == outcome

\* resolve(...) / reject(...): only the first call settles the promise.
Settle(p, outcome) == IF p.state = "pending" THEN outcome ELSE p

\* Mutant of ClearTimeout: the timer is left armed.
ClearTimeoutForgotten(t) == t

\* clearTimeout(connectionTimeout): disarms a timer that has not fired.
ClearTimeout(t) == IF t = "armed" THEN "cleared" ELSE t

\* Mutant of OutcomeAfterClose: the close handler rejects an exchange that is
\* still pending.
RejectedOnClose(p) == Settle(p, Rejected("WebSocket closed"))

\* ws.on('close') calls neither resolve nor reject: the outcome is what it was.
OutcomeAfterClose(p) == p

\* Mutant of PushChunk: unshift instead of push.
PushChunkFront(chunks, delta) == IF delta # "" THEN <<delta>> \o chunks ELSE chunks

\* responseAudioChunks.push(event.delta) under "if (event.delta)".
PushChunk(chunks, delta) == IF delta # "" THEN Append(chunks, delta) ELSE chunks

\* Mutant of PushedFor: one responseAudioChunks list at module scope, which
\* every session pushes to.
PushedForAll(all, r, delta) == [o \in Requests |-> PushChunk(all[o], delta)]

\* responseAudioChunks is a local of the processAudioWithOpenAI call of r
PushedFor(all, r, delta) == [all EXCEPT ![r] = PushChunk(@, delta)]

\* responseAudioChunks.join('')
RECURSIVE Join(_)
Join(chunks) == IF chunks = <<>> THEN "" ELSE Head(chunks) \o Join(Tail(chunks))

\* ws.close(code, reason): requests the close of a socket that is connecting
\* or open, and does nothing on a socket that is closing or closed.
CloseRequested(rs) == IF rs \in {"CONNECTING", "OPEN"} THEN "CLOSING" ELSE rs

\* ws.send(...) three times: the messages reach the wire of an open socket.
SessionUpdate == [type |-> "session.update", audio |-> <<>>]
ItemCreate(buf) == [type |-> "conversation.item.create", audio |-> BufferToBase64(buf)]
ResponseCreate == [type |-> "response.create", audio |-> <<>>]
\* Mutant of ControlMessages: the input is submitted before the configuration.
ControlMessagesInputFirst(buf) == <<ItemCreate(buf), SessionUpdate, ResponseCreate>>
ControlMessages(buf) == <<SessionUpdate, ItemCreate(buf), ResponseCreate>>
SendAll(rs, wire, msgs) == IF rs = "OPEN" THEN wire \o msgs ELSE wire

\* Mutant of IsSessionCreated: the isSessionConfigured flag is not consulted.
IsSessionCreatedUnguarded(m, configured) == m.json /\ m.type = "session.created"

\* the branch condition of the message handler's first "if"
IsSessionCreated(m, configured) == m.json /\ m.type = "session.created" /\ ~configured

\* Mutant of IsErrorEvent: every type the handler does not name is treated
\* as an error.
IsErrorEventOrUnknown(m) ==
    m.type \notin {"session.created", "response.audio.delta",
                   "response.text.delta", "response.done"}

\* event.type === 'error' || event.type === 'session.error'
IsErrorEvent(m) == m.type \in {"error", "session.error"}

\* event.message || event.reason || 'Unknown API error'
ErrorText(m) == IF m.message # "" THEN m.message
                ELSE IF m.reason # "" THEN m.reason ELSE "Unknown API error"
ApiErrorMessage(m) == "OpenAI API Error: " \o ErrorText(m)

TimeoutMessage == "Timeout: OpenAI Realtime API connection or initial data timeout"

\* Mutant of TimeoutApplies: the callback only looks for a silent open socket.
TimeoutAppliesWhenOpen(rs, received) == rs = "OPEN" /\ ~received

\* the condition of the connectionTimeout callback
TimeoutApplies(rs, received) ==
    rs = "CONNECTING" \/ (rs = "OPEN" /\ ~received)

\* The responses of the route handler.
NoBody == [status |-> 0, keys |-> {}, audio |-> "", error |-> "", details |-> ""]
BadRequest == [NoBody EXCEPT !.status = 400, !.keys = {"error"},
                              !.error = "Dados de audio nao fornecidos"]
Ok(audio) == [NoBody EXCEPT !.status = 200, !.keys = {"audio"}, !.audio = audio]
InternalError(msg) == [NoBody EXCEPT !.status = 500, !.keys = {"error", "details"},
                                     !.error = "Erro interno ao processar audio",
                                     !.details = msg]

\* Mutant of ReplyFor: the catch block drops error.message.
ReplyWithoutDetails(p) ==
    IF p.state = "resolved" THEN Ok(p.value) ELSE InternalError("")

\* what the handler writes once the awaited promise has settled
ReplyFor(p) == IF p.state = "resolved" THEN Ok(p.value) ELSE InternalError(p.value)

-----------------------------------------------------------------------------
(* Relay bridge: state machine.                                            *)

RelayInit ==
    /\ reqAudio = [r \in Requests |-> Absent]
    /\ handler = [r \in Requests |-> "none"]
    /\ httpResponses = [r \in Requests |-> <<>>]
    /\ wsCreated = [r \in Requests |-> 0]
    /\ audioBuffer = [r \in Requests |-> <<>>]
    /\ readyState = [r \in Requests |-> "NONE"]
    /\ established = [r \in Requests |-> FALSE]
    /\ errorEmitted = [r \in Requests |-> FALSE]
    /\ closeCalls = [r \in Requests |-> <<>>]
    /\ responseAudioChunks = [r \in Requests |-> <<>>]
    /\ isSessionConfigured = [r \in Requests |-> FALSE]
    /\ hasReceivedData = [r \in Requests |-> FALSE]
    /\ connectionTimeout = [r \in Requests |-> "none"]
    /\ promise = [r \in Requests |-> NoPromise]
    /\ sent = [r \in Requests |-> <<>>]
    /\ rxFragments = [r \in Requests |-> <<>>]
    /\ rxCreated = [r \in Requests |-> 0]
    /\ rxDoneAt = [r \in Requests |-> -1]
    /\ msgCount = 0

\* app.post('/process-audio'): a request without audio is answered 400.
PostWithoutAudio(r, a) ==
    /\ UNCHANGED clientVars
    /\ handler[r] = "none"
    /\ ~Truthy(a)
    /\ reqAudio' = [reqAudio EXCEPT ![r] = a]
    /\ httpResponses' = [httpResponses EXCEPT ![r] = Append(@, BadRequest)]
    /\ handler' = [handler EXCEPT ![r] = "done"]
    /\ UNCHANGED <<wsCreated, audioBuffer, readyState, established, errorEmitted,
                   closeCalls, responseAudioChunks, isSessionConfigured,
                   hasReceivedData, connectionTimeout, promise, sent,
                   rxFragments, rxCreated, rxDoneAt, msgCount>>

\* app.post('/process-audio') up to its await: decodes the audio and calls
\* processAudioWithOpenAI, which opens the socket and arms the timer.
PostWithAudio(r, a) ==
    /\ UNCHANGED clientVars
    /\ handler[r] = "none"
    /\ Truthy(a)
    /\ reqAudio' = [reqAudio EXCEPT ![r] = a]
    /\ audioBuffer' = [audioBuffer EXCEPT ![r] = BufferFromBase64(a.text)]
    /\ wsCreated' = [wsCreated EXCEPT ![r] = @ + 1]
    /\ readyState' = [readyState EXCEPT ![r] = "CONNECTING"]
    /\ responseAudioChunks' = [responseAudioChunks EXCEPT ![r] = <<>>]
    /\ isSessionConfigured' = [isSessionConfigured EXCEPT ![r] = FALSE]
    /\ hasReceivedData' = [hasReceivedData EXCEPT ![r] = FALSE]
    /\ connectionTimeout' = [connectionTimeout EXCEPT ![r] = "armed"]
    /\ promise' = [promise EXCEPT ![r] = Pending]
    /\ handler' = [handler EXCEPT ![r] = "awaiting"]
    /\ UNCHANGED <<httpResponses, established, errorEmitted, closeCalls, sent,
                   rxFragments, rxCreated, rxDoneAt, msgCount>>

\* the setTimeout callback, when the 30 s have elapsed on an armed timer
ConnectionTimeoutFires(r) ==
    /\ UNCHANGED clientVars
    /\ connectionTimeout[r] = "armed"
    /\ connectionTimeout' = [connectionTimeout EXCEPT ![r] = "fired"]
    /\ IF TimeoutApplies(readyState[r], hasReceivedData[r])
       THEN /\ readyState' = [readyState EXCEPT ![r] = CloseRequested(@)]
            /\ closeCalls' = [closeCalls EXCEPT ![r] = Append(@, 1000)]
            /\ promise' = [promise EXCEPT ![r] = Settle(@, Rejected(TimeoutMessage))]
       ELSE UNCHANGED <<readyState, closeCalls, promise>>
    /\ UNCHANGED <<reqAudio, handler, httpResponses, wsCreated, audioBuffer,
                   established, errorEmitted, responseAudioChunks,
                   isSessionConfigured, hasReceivedData, sent, rxFragments,
                   rxCreated, rxDoneAt, msgCount>>

\* ws.on('open')
WsOpen(r) ==
    /\ UNCHANGED clientVars
    /\ readyState[r] = "CONNECTING"
    /\ readyState' = [readyState EXCEPT ![r] = "OPEN"]
    /\ established' = [established EXCEPT ![r] = TRUE]
    /\ connectionTimeout' = [connectionTimeout EXCEPT ![r] = ClearTimeout(@)]
    /\ UNCHANGED <<reqAudio, handler, httpResponses, wsCreated, audioBuffer,
                   errorEmitted, closeCalls, responseAudioChunks,
                   isSessionConfigured, hasReceivedData, promise, sent,
                   rxFragments, rxCreated, rxDoneAt, msgCount>>

\* A message can be delivered on an open socket, and on one whose close was
\* requested after it had opened, until the close completes.
CanReceive(r) ==
    /\ established[r]
    /\ readyState[r] \in {"OPEN", "CLOSING"}
    /\ msgCount < MaxMsgs

\* what every run of the message handler does, whatever the message
Received(r, m) ==
    /\ hasReceivedData' = [hasReceivedData EXCEPT ![r] = TRUE]
    /\ msgCount' = msgCount + 1
    /\ rxFragments' = [rxFragments EXCEPT ![r] =
            IF m.json /\ m.type = "response.audio.delta" THEN Append(@, m.delta) ELSE @]
    /\ rxCreated' = [rxCreated EXCEPT ![r] =
            IF m.json /\ m.type = "session.created" THEN @ + 1 ELSE @]
    /\ rxDoneAt' = [rxDoneAt EXCEPT ![r] =
            IF m.json /\ m.type = "response.done" /\ @ = -1
            THEN Len(rxFragments[r]) ELSE @]

\* ws.on('message'), branch session.created && !isSessionConfigured
OnSessionCreated(r, m) ==
    /\ UNCHANGED clientVars
    /\ CanReceive(r)
    /\ IsSessionCreated(m, isSessionConfigured[r])
    /\ Received(r, m)
    /\ isSessionConfigured' = [isSessionConfigured EXCEPT ![r] = TRUE]
    /\ sent' = [sent EXCEPT ![r] =
                   SendAll(readyState[r], @, ControlMessages(audioBuffer[r]))]
    /\ UNCHANGED <<reqAudio, handler, httpResponses, wsCreated, audioBuffer,
                   readyState, established, errorEmitted, closeCalls,
                   responseAudioChunks, connectionTimeout, promise>>

\* ws.on('message'), branch response.audio.delta
OnAudioDelta(r, m) ==
    /\ UNCHANGED clientVars
    /\ CanReceive(r)
    /\ m.json /\ ~IsSessionCreated(m, isSessionConfigured[r])
    /\ m.type = "response.audio.delta"
    /\ Received(r, m)
    /\ responseAudioChunks' = PushedFor(responseAudioChunks, r, m.delta)
    /\ UNCHANGED <<reqAudio, handler, httpResponses, wsCreated, audioBuffer,
                   readyState, established, errorEmitted, closeCalls,
                   isSessionConfigured, connectionTimeout, promise, sent>>

\* ws.on('message'), branch response.done
OnResponseDone(r, m) ==
    /\ UNCHANGED clientVars
    /\ CanReceive(r)
    /\ m.json /\ ~IsSessionCreated(m, isSessionConfigured[r])
    /\ m.type = "response.done"
    /\ Received(r, m)
    /\ IF readyState[r] = "OPEN"
       THEN /\ readyState' = [readyState EXCEPT ![r] = CloseRequested(@)]
            /\ closeCalls' = [closeCalls EXCEPT ![r] = Append(@, 1000)]
       ELSE UNCHANGED <<readyState, closeCalls>>
    /\ promise' = [promise EXCEPT ![r] =
                      Settle(@, Resolved(Join(responseAudioChunks[r])))]
    /\ UNCHANGED <<reqAudio, handler, httpResponses, wsCreated, audioBuffer,
                   established, errorEmitted, responseAudioChunks,
                   isSessionConfigured, connectionTimeout, sent>>

\* ws.on('message'), branch error / session.error
OnErrorEvent(r, m) ==
    /\ UNCHANGED clientVars
    /\ CanReceive(r)
    /\ m.json /\ ~IsSessionCreated(m, isSessionConfigured[r])
    /\ IsErrorEvent(m)
    /\ Received(r, m)
    /\ IF readyState[r] = "OPEN"
       THEN /\ readyState' = [readyState EXCEPT ![r] = CloseRequested(@)]
            /\ closeCalls' = [closeCalls EXCEPT ![r] = Append(@, 1011)]
       ELSE UNCHANGED <<readyState, closeCalls>>
    /\ promise' = [promise EXCEPT ![r] = Settle(@, Rejected(ApiErrorMessage(m)))]
    /\ UNCHANGED <<reqAudio, handler, httpResponses, wsCreated, audioBuffer,
                   established, errorEmitted, responseAudioChunks,
                   isSessionConfigured, connectionTimeout, sent>>

\* ws.on('message'), no branch taken: response.text.delta, an unknown type,
\* a repeated session.created, or a message JSON.parse throws on
OnIgnoredMessage(r, m) ==
    /\ UNCHANGED clientVars
    /\ CanReceive(r)
    /\ \/ ~m.json
       \/ /\ ~IsSessionCreated(m, isSessionConfigured[r])
          /\ m.type \notin {"response.audio.delta", "response.done"}
          /\ ~IsErrorEvent(m)
    /\ Received(r, m)
    /\ UNCHANGED <<reqAudio, handler, httpResponses, wsCreated, audioBuffer,
                   readyState, established, errorEmitted, closeCalls,
                   responseAudioChunks, isSessionConfigured, connectionTimeout,
                   promise, sent>>

\* ws.on('error'): the socket is already closing when it emits 'error'
WsError(r, err) ==
    /\ UNCHANGED clientVars
    /\ readyState[r] \in {"CONNECTING", "OPEN", "CLOSING"}
    /\ ~errorEmitted[r]
    /\ errorEmitted' = [errorEmitted EXCEPT ![r] = TRUE]
    /\ readyState' = [readyState EXCEPT ![r] = "CLOSING"]
    /\ connectionTimeout' = [connectionTimeout EXCEPT ![r] = ClearTimeout(@)]
    /\ promise' = [promise EXCEPT ![r] = Settle(@, Rejected(err))]
    /\ UNCHANGED <<reqAudio, handler, httpResponses, wsCreated, audioBuffer,
                   established, closeCalls, responseAudioChunks,
                   isSessionConfigured, hasReceivedData, sent, rxFragments,
                   rxCreated, rxDoneAt, msgCount>>

\* ws.on('close'): a socket that never opened emits 'error' before 'close'
WsClose(r) ==
    /\ UNCHANGED clientVars
    /\ readyState[r] \in {"OPEN", "CLOSING"}
    /\ established[r] \/ errorEmitted[r]
    /\ readyState' = [readyState EXCEPT ![r] = "CLOSED"]
    /\ connectionTimeout' = [connectionTimeout EXCEPT ![r] = ClearTimeout(@)]
    /\ promise' = [promise EXCEPT ![r] = OutcomeAfterClose(@)]
    /\ UNCHANGED <<reqAudio, handler, httpResponses, wsCreated, audioBuffer,
                   established, errorEmitted, closeCalls, responseAudioChunks,
                   isSessionConfigured, hasReceivedData, sent,
                   rxFragments, rxCreated, rxDoneAt, msgCount>>

\* the route handler resumes after its await: res.json on a resolved promise,
\* the catch block's res.status(500).json on a rejected one
Respond(r) ==
    /\ UNCHANGED clientVars
    /\ handler[r] = "awaiting"
    /\ promise[r].state \in {"resolved", "rejected"}
    /\ httpResponses' = [httpResponses EXCEPT ![r] = Append(@, ReplyFor(promise[r]))]
    /\ handler' = [handler EXCEPT ![r] = "done"]
    /\ UNCHANGED <<reqAudio, wsCreated, audioBuffer, readyState, established,
                   errorEmitted, closeCalls, responseAudioChunks,
                   isSessionConfigured, hasReceivedData, connectionTimeout,
                   promise, sent, rxFragments, rxCreated, rxDoneAt, msgCount>>

-----------------------------------------------------------------------------
(* Browser client: helpers.                                                *)

\* Samples are counted in units of 0.01, so the threshold 0.01 is 1.
SILENCE_THRESHOLD == 1
SPEECH_TIMEOUT_MS == 1500

\* The frames a callback can deliver (inputBuffer.getChannelData(0)): digital
\* silence, a frame whose RMS is exactly the threshold, and two frames above it.
SilentFrame == <<0, 0>>
Frames == { SilentFrame, <<1, 1>>, <<2, 0>>, <<2, 2>> }

\* Date.now() advances by one of these between two frame callbacks.
Gaps == {750, 2250}

\* the loop "sum += inputData[i] * inputData[i]"
RECURSIVE SumOfSquares(_)
SumOfSquares(f) == IF f = <<>> THEN 0 ELSE Head(f) * Head(f) + SumOfSquares(Tail(f))

\* Mutant of SpeechTimedOut: the clock itself is compared with the timeout.
SpeechTimedOutSinceEpoch(currentTime, last) == currentTime > SPEECH_TIMEOUT_MS

\* Mutant of IsSpeech: every frame is recorded, whatever its level.
IsSpeechWhateverLevel(f) == SumOfSquares(f) >= 0

\* Mutant of IsSpeech: a frame at the threshold counts as speech (rms >=).
IsSpeechFromThreshold(f) == SumOfSquares(f) >= Len(f) * SILENCE_THRESHOLD * SILENCE_THRESHOLD

\* rms > SILENCE_THRESHOLD, with rms = Math.sqrt(sum / inputData.length)
IsSpeech(f) == SumOfSquares(f) > Len(f) * SILENCE_THRESHOLD * SILENCE_THRESHOLD

\* currentTime - lastSpeechTime > SPEECH_TIMEOUT_MS
SpeechTimedOut(currentTime, last) == currentTime - last > SPEECH_TIMEOUT_MS

\* Mutant of concatenateFloat32Arrays: each array is written in front of the
\* ones before it.
RECURSIVE concatenateBackwards(_)
concatenateBackwards(arrays) ==
    IF arrays = <<>> THEN <<>>
    ELSE concatenateBackwards(Tail(arrays)) \o Head(arrays)

\* concatenateFloat32Arrays(arrays)
RECURSIVE concatenateFloat32Arrays(_)
concatenateFloat32Arrays(arrays) ==
    IF arrays = <<>> THEN <<>>
    ELSE Head(arrays) \o concatenateFloat32Arrays(Tail(arrays))

\* scriptProcessor.onaudioprocess as a function: the segmenter s after a
\* callback with frame f at clock time t; s.sent lists the utterances handed
\* to sendAudioToServer, which sets the busy flag
ProcessFrame(s, f, t) ==
    IF s.busy \/ ~s.listening THEN s
    ELSE IF IsSpeech(f)
    THEN [s EXCEPT !.buffer = Append(@, f), !.last = t]
    ELSE IF s.buffer # <<>> /\ SpeechTimedOut(t, s.last)
    THEN IF Len(concatenateFloat32Arrays(s.buffer)) > 0
         THEN [s EXCEPT !.buffer = <<>>, !.busy = TRUE,
                        !.sent = Append(@, concatenateFloat32Arrays(s.buffer))]
         ELSE [s EXCEPT !.buffer = <<>>]
    ELSE s

\* the segmenter s after the callbacks of a frame sequence q, whose entries
\* are a frame and the time since the previous callback, starting at time t
RECURSIVE Feed(_, _, _)
Feed(s, t, q) ==
    IF q = <<>> THEN s
    ELSE Feed(ProcessFrame(s, Head(q)[1], t + Head(q)[2]), t + Head(q)[2], Tail(q))

\* the frame sequences fed to a cycle
Scripts == [1 .. ScriptLen -> (Frames \ {SilentFrame}) \X Gaps]

\* the segmenter as the page load leaves it, once listening
FreshSegmenter ==
    [buffer |-> <<>>, last |-> 0, busy |-> FALSE, listening |-> TRUE, sent |-> <<>>]

StartCalls == 1 .. MaxStarts

\* A round trip is in flight while its HTTP request is outstanding, its
\* response is being read, or its audio is being started or played.
InFlightPhases == {"fetch", "errorBody", "body", "blob", "starting", "playing"}
InFlight == {i \in DOMAIN trips : trips[i].phase \in InFlightPhases}

segmenterVars == <<recordingBuffer, lastSpeechTime, now, frameCount>>
captureVars == <<audioContext, mediaStream, scriptProcessor, contexts, streams, nodes>>

-----------------------------------------------------------------------------
(* Browser client: state machine.                                          *)

ClientInit ==
    /\ isListening = FALSE
    /\ isSpeaking = FALSE
    /\ recordingBuffer = <<>>
    /\ lastSpeechTime = 0
    /\ now = 0
    /\ frameCount = 0
    /\ audioContext = 0
    /\ mediaStream = 0
    /\ scriptProcessor = 0
    /\ contexts = [k \in StartCalls |-> "none"]
    /\ streams = [k \in StartCalls |-> "none"]
    /\ nodes = [k \in StartCalls |-> [state |-> "none", ctx |-> 0]]
    /\ starts = [k \in StartCalls |-> "idle"]
    /\ trips = <<>>

\* stopListening(), called when mediaStream is ms and the streams are st
StopListening(ms, st) ==
    IF ~isListening /\ ms = 0
    THEN /\ mediaStream' = ms
         /\ streams' = st
         /\ UNCHANGED <<isListening, scriptProcessor, nodes, audioContext,
                        contexts, recordingBuffer>>
    ELSE /\ isListening' = FALSE
         /\ scriptProcessor' = 0
         /\ nodes' = IF scriptProcessor # 0
                     THEN [nodes EXCEPT ![scriptProcessor].state = "draining"]
                     ELSE nodes
         /\ mediaStream' = 0
         /\ streams' = IF ms # 0 THEN [st EXCEPT ![ms] = "stopped"] ELSE st
         /\ IF audioContext # 0 /\ contexts[audioContext] # "closed"
            THEN /\ contexts' = [contexts EXCEPT ![audioContext] = "closed"]
                 /\ audioContext' = 0
            ELSE UNCHANGED <<audioContext, contexts>>
         /\ recordingBuffer' = <<>>

\* startListening() up to "await audioContext.resume()"
StartListening(k) ==
    /\ starts[k] = "idle"
    /\ \A j \in StartCalls : j < k => starts[j] # "idle"
    /\ ~isListening
    /\ contexts' = [contexts EXCEPT ![k] = "running"]
    /\ audioContext' = k
    /\ starts' = [starts EXCEPT ![k] = "resume"]
    /\ UNCHANGED <<isListening, isSpeaking, segmenterVars, mediaStream,
                   scriptProcessor, streams, nodes, trips>>
    /\ UNCHANGED relayVars

\* startListening() resumes with the context running: getUserMedia is called
ResumeResolved(k) ==
    /\ starts[k] = "resume"
    /\ contexts[k] = "running"
    /\ starts' = [starts EXCEPT ![k] = "gum"]
    /\ UNCHANGED <<isListening, isSpeaking, segmenterVars, captureVars, trips>>
    /\ UNCHANGED relayVars

\* resume() rejects on a context closed meanwhile: catch, stopListening()
ResumeRejected(k) ==
    /\ starts[k] = "resume"
    /\ contexts[k] = "closed"
    /\ starts' = [starts EXCEPT ![k] = "done"]
    /\ StopListening(mediaStream, streams)
    /\ UNCHANGED <<isSpeaking, lastSpeechTime, now, frameCount, trips>>
    /\ UNCHANGED relayVars

\* getUserMedia resolves: the rest of the try block, or its catch when
\* audioContext has been reset meanwhile
GetUserMediaResolved(k) ==
    /\ starts[k] = "gum"
    /\ starts' = [starts EXCEPT ![k] = "done"]
    /\ IF audioContext = 0
       THEN StopListening(k, [streams EXCEPT ![k] = "live"])
       ELSE /\ mediaStream' = k
            /\ streams' = [streams EXCEPT ![k] = "live"]
            /\ nodes' = [nodes EXCEPT ![k] = [state |-> "attached", ctx |-> audioContext]]
            /\ scriptProcessor' = k
            /\ isListening' = TRUE
            /\ UNCHANGED <<audioContext, contexts, recordingBuffer>>
    /\ UNCHANGED <<isSpeaking, lastSpeechTime, now, frameCount, trips>>
    /\ UNCHANGED relayVars

\* getUserMedia rejects: catch, stopListening()
GetUserMediaRejected(k) ==
    /\ starts[k] = "gum"
    /\ starts' = [starts EXCEPT ![k] = "done"]
    /\ StopListening(mediaStream, streams)
    /\ UNCHANGED <<isSpeaking, lastSpeechTime, now, frameCount, trips>>
    /\ UNCHANGED relayVars

\* click on the stop button
StopClicked ==
    /\ StopListening(mediaStream, streams)
    /\ UNCHANGED <<isSpeaking, lastSpeechTime, now, frameCount, starts, trips>>
    /\ UNCHANGED relayVars

\* sendAudioToServer(float32AudioData) up to "await fetch(...)"
SendAudioToServer(float32AudioData) ==
    IF isSpeaking
    THEN UNCHANGED <<isSpeaking, trips>>
    ELSE /\ isSpeaking' = TRUE
         /\ trips' = Append(trips, [phase |-> "fetch", audio |-> float32AudioData])

\* Mutant of completeAudio: the buffer is cleared before it is concatenated.
completeAudioAfterClear == concatenateFloat32Arrays(<<>>)

\* const completeAudio = concatenateFloat32Arrays(recordingBuffer);
completeAudio == concatenateFloat32Arrays(recordingBuffer)

\* Mutant of clearedBuffer: the frames handed over stay in the buffer.
bufferKeptAfterHandOff == recordingBuffer

\* recordingBuffer = []; // Clear buffer
clearedBuffer == <<>>

\* Mutant of FrameIgnored: a frame is skipped only while the bear speaks.
FrameIgnoredWhenBusy == isSpeaking

\* Mutant of FrameIgnored: a frame is skipped only when the segmenter was
\* stopped.
FrameIgnoredWhenStopped == ~isListening

\* if (isSpeaking || !isListening) return;
FrameIgnored == isSpeaking \/ ~isListening

\* the event loop can run the audioprocess callback of node n with frame f:
\* the node is connected to a running context (a node whose stream was
\* stopped delivers silence), or it was disconnected by stopListening while
\* one event, queued by the audio thread before that, is still to be run
\* (the handler stays assigned: stopListening only calls disconnect())
CallbackDue(n, f) ==
    \/ /\ nodes[n].state = "attached"
       /\ contexts[nodes[n].ctx] = "running"
       /\ streams[n] = "live" \/ f = SilentFrame
    \/ nodes[n].state = "draining"

\* scriptProcessor.onaudioprocess of node n, with frame f, gap ms after the
\* previous callback.
OnAudioProcess(n, f, gap) ==
    /\ frameCount < MaxFrames
    /\ CallbackDue(n, f)
    /\ nodes' = IF nodes[n].state = "draining"
                THEN [nodes EXCEPT ![n].state = "detached"]
                ELSE nodes
    /\ frameCount' = frameCount + 1
    /\ now' = now + gap
    /\ IF FrameIgnored
       THEN UNCHANGED <<recordingBuffer, lastSpeechTime, isSpeaking, trips>>
       ELSE IF IsSpeech(f)
       THEN /\ recordingBuffer' = Append(recordingBuffer, f)
            /\ lastSpeechTime' = now'
            /\ UNCHANGED <<isSpeaking, trips>>
       ELSE IF recordingBuffer # <<>> /\ SpeechTimedOut(now', lastSpeechTime)
       THEN /\ recordingBuffer' = clearedBuffer
            /\ IF Len(completeAudio) > 0
               THEN /\ Len(trips) < MaxUtterances
                    /\ SendAudioToServer(completeAudio)
               ELSE UNCHANGED <<isSpeaking, trips>>
            /\ UNCHANGED lastSpeechTime
       ELSE UNCHANGED <<recordingBuffer, lastSpeechTime, isSpeaking, trips>>
    /\ UNCHANGED <<isListening, audioContext, mediaStream, scriptProcessor,
                   contexts, streams, starts>>
    /\ UNCHANGED relayVars

\* a round trip moves from one phase to another; the busy flag is cleared
\* by the steps that run a catch block or a playback handler
Advance(i, from, to, clears) ==
    /\ trips[i].phase \in from
    /\ trips' = [trips EXCEPT ![i].phase = to]
    /\ isSpeaking' = IF clears THEN FALSE ELSE isSpeaking
    /\ UNCHANGED <<isListening, segmenterVars, captureVars, starts>>
    /\ UNCHANGED relayVars

\* Mutant of PlayRejected: the catch block of playAudioResponse leaves the
\* busy flag set.
PlayRejectedStillBusy(i) ==
    /\ i \in DOMAIN trips
    /\ Advance(i, {"starting"}, "blocked", FALSE)

\* fetch rejects: the catch block of sendAudioToServer
FetchFails(i) ==
    /\ i \in DOMAIN trips
    /\ Advance(i, {"fetch"}, "failed", TRUE)
\* fetch resolves with !response.ok: await response.json()
FetchNotOk(i) ==
    /\ i \in DOMAIN trips
    /\ Advance(i, {"fetch"}, "errorBody", FALSE)
\* the error body was read: throw, the catch block of sendAudioToServer
ErrorBodyRead(i) ==
    /\ i \in DOMAIN trips
    /\ Advance(i, {"errorBody"}, "failed", TRUE)
\* fetch resolves with response.ok: await response.json()
FetchOk(i) ==
    /\ i \in DOMAIN trips
    /\ Advance(i, {"fetch"}, "body", FALSE)
\* responseData.audio is set: playAudioResponse up to its await
BodyWithAudio(i) ==
    /\ i \in DOMAIN trips
    /\ Advance(i, {"body"}, "blob", FALSE)
\* responseData.audio is empty or missing: throw, the catch block
BodyWithoutAudio(i) ==
    /\ i \in DOMAIN trips
    /\ Advance(i, {"body"}, "failed", TRUE)
\* fetch(data:...) or blob() rejects: the catch block of playAudioResponse
BlobFails(i) ==
    /\ i \in DOMAIN trips
    /\ Advance(i, {"blob"}, "failed", TRUE)
\* the blob is ready: new Audio, handlers set, audio.play() called
BlobReady(i) ==
    /\ i \in DOMAIN trips
    /\ Advance(i, {"blob"}, "starting", FALSE)
\* audio.play() resolves: playback has started
PlayStarts(i) ==
    /\ i \in DOMAIN trips
    /\ Advance(i, {"starting"}, "playing", FALSE)
\* audio.play() rejects because playback is not allowed: the catch block of
\* playAudioResponse; the element goes on loading its source
PlayRejected(i) ==
    /\ i \in DOMAIN trips
    /\ Advance(i, {"starting"}, "blocked", TRUE)
\* audio.onended
AudioOnEnded(i) ==
    /\ i \in DOMAIN trips
    /\ Advance(i, {"playing"}, "ended", TRUE)
\* audio.onerror: the source fails to load or to decode (a pending play()
\* is rejected in the same task, and its catch block clears the flag too)
AudioOnError(i) ==
    /\ i \in DOMAIN trips
    /\ Advance(i, {"starting", "blocked", "playing"}, "error", TRUE)

\* One step of the client, with frames drawn from F and clock gaps from G.
ClientStep(F, G) ==
    \/ \E k \in StartCalls : StartListening(k)
    \/ \E k \in StartCalls : ResumeResolved(k)
    \/ \E k \in StartCalls : ResumeRejected(k)
    \/ \E k \in StartCalls : GetUserMediaResolved(k)
    \/ \E k \in StartCalls : GetUserMediaRejected(k)
    \/ StopClicked
    \/ \E n \in StartCalls, f \in F, gap \in G : OnAudioProcess(n, f, gap)
    \/ \E i \in 1 .. MaxUtterances : FetchFails(i)
    \/ \E i \in 1 .. MaxUtterances : FetchNotOk(i)
    \/ \E i \in 1 .. MaxUtterances : ErrorBodyRead(i)
    \/ \E i \in 1 .. MaxUtterances : FetchOk(i)
    \/ \E i \in 1 .. MaxUtterances : BodyWithAudio(i)
    \/ \E i \in 1 .. MaxUtterances : BodyWithoutAudio(i)
    \/ \E i \in 1 .. MaxUtterances : BlobFails(i)
    \/ \E i \in 1 .. MaxUtterances : BlobReady(i)
    \/ \E i \in 1 .. MaxUtterances : PlayStarts(i)
    \/ \E i \in 1 .. MaxUtterances : PlayRejected(i)
    \/ \E i \in 1 .. MaxUtterances : AudioOnEnded(i)
    \/ \E i \in 1 .. MaxUtterances : AudioOnError(i)

-----------------------------------------------------------------------------
(* Specifications.                                                         *)

\* One step of the bridge serving the requests R, with upstream messages
\* drawn from M.
RelayStep(R, M) ==
    \/ \E r \in R, a \in AudioInputs : PostWithoutAudio(r, a)
    \/ \E r \in R, a \in AudioInputs : PostWithAudio(r, a)
    \/ \E r \in R : ConnectionTimeoutFires(r)
    \/ \E r \in R : WsOpen(r)
    \/ \E r \in R, m \in M : OnSessionCreated(r, m)
    \/ \E r \in R, m \in M : OnAudioDelta(r, m)
    \/ \E r \in R, m \in M : OnResponseDone(r, m)
    \/ \E r \in R, m \in M : OnErrorEvent(r, m)
    \/ \E r \in R, m \in M : OnIgnoredMessage(r, m)
    \/ \E r \in R, err \in SocketErrors : WsError(r, err)
    \/ \E r \in R : WsClose(r)
    \/ \E r \in R : Respond(r)

Init == RelayInit /\ ClientInit

\* One request and its relay session, with every kind of upstream message.
Next == RelayStep({"r1"}, UpstreamMessages)

Spec == Init /\ [][Next]_vars

\* The event loop runs the continuation of a settled promise and the callback
\* of an armed timer.  Upstream events are not forced: the upstream may stay
\* silent.
FairSpec ==
    Spec /\ \A r \in Requests :
               WF_vars(Respond(r)) /\ WF_vars(ConnectionTimeoutFires(r))

\* Two concurrent requests and their relay sessions, with one upstream
\* message of each kind the handler tells apart.
PairMessages ==
    { Event("session.created", "", "", ""),
      Event("response.audio.delta", "AAA", "", ""),
      Event("response.done", "", "", ""),
      Event("error", "", "rate_limited", ""),
      Unparseable }

\* one step of request r: its route handler, its socket's events, its timer
PairStep(r) ==
    \/ PostWithoutAudio(r, Absent)
    \/ PostWithAudio(r, Audio(<<"Q", "U", "J", "D">>))
    \/ ConnectionTimeoutFires(r)
    \/ WsOpen(r)
    \/ \E m \in PairMessages : OnSessionCreated(r, m)
    \/ \E m \in PairMessages : OnAudioDelta(r, m)
    \/ \E m \in PairMessages : OnResponseDone(r, m)
    \/ \E m \in PairMessages : OnErrorEvent(r, m)
    \/ \E m \in PairMessages : OnIgnoredMessage(r, m)
    \/ WsError(r, "ECONNRESET")
    \/ WsClose(r)
    \/ Respond(r)

PairNext == \E r \in Requests : PairStep(r)

PairSpec == Init /\ [][PairNext]_vars

\* The browser client, with the server's replies and the playback events as
\* its environment: every interleaving of start and stop calls, frame
\* callbacks, fetch completions and playback events, with one kind of speech
\* frame, and silence long enough to end an utterance.
ClientNext == ClientStep({SilentFrame, <<2, 0>>}, {2250})

ClientSpec == Init /\ [][ClientNext]_vars

\* The segmenter alone, over two start/stop cycles: starts that get their
\* device, stops, frame callbacks with every kind of frame and both clock
\* gaps, and round trips that end with a failed fetch.
Cycles == {1, 2}

SegmenterNext ==
    \/ \E k \in Cycles : StartListening(k)
    \/ \E k \in Cycles : ResumeResolved(k)
    \/ \E k \in Cycles : GetUserMediaResolved(k)
    \/ StopClicked
    \/ \E n \in Cycles, f \in Frames, gap \in Gaps : OnAudioProcess(n, f, gap)
    \/ \E i \in 1 .. MaxUtterances : FetchFails(i)

SegmenterSpec == Init /\ [][SegmenterNext]_vars

\* A round trip makes progress: the pending fetch, body read, blob read or
\* play() call settles one way or the other, and a playback that started ends.
RoundTripProgress(i) ==
    \/ FetchFails(i) \/ FetchNotOk(i) \/ ErrorBodyRead(i) \/ FetchOk(i)
    \/ BodyWithAudio(i) \/ BodyWithoutAudio(i) \/ BlobFails(i) \/ BlobReady(i)
    \/ PlayStarts(i) \/ PlayRejected(i) \/ AudioOnEnded(i)

\* One listening session with one kind of speech frame, and every outcome of
\* the round trips of its utterances.
RoundTripNext ==
    \/ StartListening(1)
    \/ ResumeResolved(1)
    \/ GetUserMediaResolved(1)
    \/ StopClicked
    \/ \E f \in {SilentFrame, <<2, 0>>} : OnAudioProcess(1, f, 2250)
    \/ \E i \in 1 .. MaxUtterances : FetchFails(i)
    \/ \E i \in 1 .. MaxUtterances : FetchNotOk(i)
    \/ \E i \in 1 .. MaxUtterances : ErrorBodyRead(i)
    \/ \E i \in 1 .. MaxUtterances : FetchOk(i)
    \/ \E i \in 1 .. MaxUtterances : BodyWithAudio(i)
    \/ \E i \in 1 .. MaxUtterances : BodyWithoutAudio(i)
    \/ \E i \in 1 .. MaxUtterances : BlobFails(i)
    \/ \E i \in 1 .. MaxUtterances : BlobReady(i)
    \/ \E i \in 1 .. MaxUtterances : PlayStarts(i)
    \/ \E i \in 1 .. MaxUtterances : PlayRejected(i)
    \/ \E i \in 1 .. MaxUtterances : AudioOnEnded(i)
    \/ \E i \in 1 .. MaxUtterances : AudioOnError(i)

\* Every awaited operation of a round trip settles and every playback that
\* started ends; frame callbacks, stops and late error events are not forced.
RoundTripSpec ==
    /\ Init /\ [][RoundTripNext]_vars
    /\ \A i \in 1 .. MaxUtterances : WF_vars(RoundTripProgress(i))

-----------------------------------------------------------------------------
(* Properties of the relay bridge.                                         *)

Accepted(r) == handler[r] # "none" /\ wsCreated[r] > 0
Settled(r) == promise[r].state \in {"resolved", "rejected"}
Answered(r) == handler[r] = "done"

\* C1: every accepted request is eventually answered, whatever the upstream
\* does (including staying silent after the socket opened, or closing the
\* socket before response.done): no exchange stays pending forever.
C1_EveryExchangeIsAnswered ==
    \A r \in Requests : (handler[r] = "awaiting") ~> (handler[r] = "done")

\* C2: once the promise of a session has settled, no later event changes its
\* outcome or its value, and the request gets one response, built from that
\* outcome, and never a second one.
C2_SettledOutcomeIsFinal ==
    [][\A r \in Requests :
         /\ Settled(r) => promise'[r] = promise[r]
         /\ Answered(r) => httpResponses'[r] = httpResponses[r]
         /\ Len(httpResponses'[r]) <= 1
         /\ (Accepted(r) /\ handler'[r] = "done") =>
                /\ Len(httpResponses'[r]) = 1
                /\ promise'[r].state = "resolved" =>
                       httpResponses'[r][1] = Ok(promise'[r].value)
                /\ promise'[r].state = "rejected" =>
                       httpResponses'[r][1].details = promise'[r].value]_vars

\* a settled and answered session that received a fragment, a socket error and
\* the close after it had resolved
C2_Witness ==
    \E r \in Requests :
        /\ promise[r].state = "resolved" /\ Answered(r)
        /\ Join(responseAudioChunks[r]) # promise[r].value
        /\ errorEmitted[r] /\ readyState[r] = "CLOSED"

\* the fragments delivered before the first response.done
FragmentsBeforeDone(r) == SubSeq(rxFragments[r], 1, rxDoneAt[r])

\* C3: a session that resolves, resolves with the concatenation, in arrival
\* order, of the fragments delivered before its response.done, and the reply
\* is 200 with that string as its audio.
C3_PayloadIsConcatenation ==
    \A r \in Requests :
        promise[r].state = "resolved" =>
            /\ rxDoneAt[r] >= 0
            /\ promise[r].value = Join(FragmentsBeforeDone(r))
            /\ Answered(r) =>
                   httpResponses[r] = <<Ok(Join(FragmentsBeforeDone(r)))>>

\* the scenario "AAA", "BBB", response.done, answered 200 with "AAABBB"
C3_Witness ==
    \E r \in Requests :
        /\ FragmentsBeforeDone(r) = <<"AAA", "BBB">>
        /\ httpResponses[r] = <<Ok("AAABBB")>>

\* C4: a socket that opens and then stays silent is timed out: the watchdog
\* fires and the request is answered 500 with the timeout message (unless a
\* message, a socket error or the close arrives first).
C4_SilentSessionTimesOut ==
    \A r \in Requests :
        (readyState[r] = "OPEN" /\ ~hasReceivedData[r])
            ~> \/ hasReceivedData[r] \/ errorEmitted[r] \/ readyState[r] = "CLOSED"
               \/ httpResponses[r] = <<InternalError(TimeoutMessage)>>

\* number of messages of a type put on the wire of a session
SentCount(r, t) == Cardinality({i \in DOMAIN sent[r] : sent[r][i].type = t})
ControlTypes == {"session.update", "conversation.item.create", "response.create"}

\* C5: however many session.created events a session receives, each of the
\* three control messages is sent at most once.
C5_ControlMessagesSentAtMostOnce ==
    \A r \in Requests : \A t \in ControlTypes : SentCount(r, t) <= 1

\* a session that sent its control messages and received session.created twice
C5_Witness ==
    \E r \in Requests : rxCreated[r] >= 2 /\ SentCount(r, "response.create") = 1

\* C6: the outbound messages of a session are, in this order, session.update,
\* conversation.item.create with the audio bytes of the request, and
\* response.create; nothing is sent before a session.created was received and
\* nothing else is ever sent.
C6_ControlMessagesInOrder ==
    \A r \in Requests :
        /\ rxCreated[r] = 0 => sent[r] = <<>>
        /\ sent[r] # <<>> =>
              /\ [i \in DOMAIN sent[r] |-> sent[r][i].type]
                     = <<"session.update", "conversation.item.create", "response.create">>
              /\ BufferFromBase64(sent[r][2].audio) = BufferFromBase64(reqAudio[r].text)
              /\ sent[r][1].audio = <<>> /\ sent[r][3].audio = <<>>

\* the three messages sent for a request whose base64 text had a line break
C6_Witness ==
    \E r \in Requests :
        /\ Len(sent[r]) = 3
        /\ reqAudio[r].text = <<"Q", "U", "\n", "J", "D">>
        /\ sent[r][2].audio = <<"Q", "U", "J", "D">>

\* C7: a rejected exchange is answered 500 with an error string and with
\* details equal to the rejection's message; the rejection raised by an
\* upstream error event with message m is "OpenAI API Error: " followed by m.
C7_RejectionAnswered500 ==
    [][\A r \in Requests :
         /\ (handler[r] = "awaiting" /\ handler'[r] = "done"
                /\ promise[r].state = "rejected") =>
                /\ Len(httpResponses'[r]) = 1
                /\ httpResponses'[r][1].status = 500
                /\ httpResponses'[r][1].keys = {"error", "details"}
                /\ httpResponses'[r][1].error # ""
                /\ httpResponses'[r][1].details = promise[r].value
         /\ \A m \in UpstreamMessages :
                (m.message # "" /\ promise[r].state = "pending" /\ OnErrorEvent(r, m)) =>
                    promise'[r] = Rejected("OpenAI API Error: " \o m.message)]_vars

\* the scenario of an error event "rate_limited", answered 500
C7_Witness ==
    \E r \in Requests :
        /\ Answered(r)
        /\ httpResponses[r][1].status = 500
        /\ httpResponses[r][1].details = "OpenAI API Error: rate_limited"

\* C8: a request whose audio is missing or empty is answered 400 with an error
\* body and nothing else: no socket, no timer, no promise, no second response.
C8_MissingAudioAnswered400 ==
    \A r \in Requests :
        (handler[r] # "none" /\ (~reqAudio[r].present \/ reqAudio[r].text = <<>>)) =>
            /\ Len(httpResponses[r]) = 1
            /\ httpResponses[r][1].status = 400
            /\ httpResponses[r][1].keys = {"error"}
            /\ httpResponses[r][1].error # ""
            /\ wsCreated[r] = 0 /\ readyState[r] = "NONE"
            /\ connectionTimeout[r] = "none" /\ promise[r] = NoPromise

\* the scenario {audio: ""}, answered 400
C8_Witness ==
    \E r \in Requests :
        /\ reqAudio[r] = Audio(<<>>)
        /\ Answered(r) /\ httpResponses[r][1].status = 400

\* C9: an accepted request has opened exactly one socket, and once its
\* exchange has settled the timer is disarmed or spent and the socket is
\* closing or closed.
C9_SettledSessionReleased ==
    \A r \in Requests :
        /\ wsCreated[r] <= 1
        /\ (handler[r] # "none" /\ reqAudio[r].present /\ reqAudio[r].text # <<>>)
               => wsCreated[r] = 1
        /\ Settled(r) =>
               /\ connectionTimeout[r] \in {"cleared", "fired"}
               /\ readyState[r] \in {"CLOSING", "CLOSED"}

\* a session resolved by response.done: timer cleared at 'open', close(1000)
\* requested on the open socket
C9_Witness ==
    \E r \in Requests :
        /\ promise[r].state = "resolved"
        /\ connectionTimeout[r] = "cleared"
        /\ readyState[r] = "CLOSING" /\ closeCalls[r] = <<1000>>

-----------------------------------------------------------------------------
(* Properties of the browser client.                                       *)

\* C10: at any time at most one utterance is in flight (its HTTP request
\* outstanding, or its response being read, started or played back), under
\* every interleaving of frame callbacks, start and stop calls, fetch
\* completions and playback events.
C10_AtMostOneUtteranceInFlight == Cardinality(InFlight) <= 1

\* a frame whose RMS is above the silence threshold
AboveThreshold(f) == SumOfSquares(f) > Len(f) * SILENCE_THRESHOLD * SILENCE_THRESHOLD

\* total number of samples of a list of frames
RECURSIVE SampleCount(_)
SampleCount(frames) ==
    IF frames = <<>> THEN 0 ELSE Len(Head(frames)) + SampleCount(Tail(frames))

\* audio holds the samples of the frames, frame after frame, and nothing else
IsConcatenationOf(audio, frames) ==
    /\ Len(audio) = SampleCount(frames)
    /\ \A j \in DOMAIN frames :
           LET offset == SampleCount(SubSeq(frames, 1, j - 1))
           IN  SubSeq(audio, offset + 1, offset + Len(frames[j])) = frames[j]

\* the segmenter is listening, not busy, and this step is a frame callback
\* delivering f, gap ms after the previous one
FrameProcessed(f, gap) ==
    /\ isListening /\ ~isSpeaking
    /\ \E n \in StartCalls : OnAudioProcess(n, f, gap)

\* C11: in a listening, non-busy segmenter each frame above the threshold is
\* appended to the buffer, which holds only such frames; frames at or below
\* the threshold leave it alone until one arrives more than 1500 ms after the
\* last frame above the threshold, and that one emits exactly one utterance,
\* the in-order concatenation of the buffered frames (its length the sum of
\* theirs), empties the buffer and sets the busy flag.
C11_SpeechThenSilenceEmitsOneUtterance ==
    [][/\ \A j \in DOMAIN recordingBuffer : AboveThreshold(recordingBuffer[j])
       /\ \A f \in Frames, gap \in Gaps :
             FrameProcessed(f, gap) =>
                 IF AboveThreshold(f)
                 THEN /\ recordingBuffer' = Append(recordingBuffer, f)
                      /\ lastSpeechTime' = now'
                      /\ trips' = trips
                 ELSE IF recordingBuffer # <<>> /\ now' - lastSpeechTime > 1500
                 THEN /\ Len(trips') = Len(trips) + 1
                      /\ SubSeq(trips', 1, Len(trips)) = trips
                      /\ IsConcatenationOf(trips'[Len(trips')].audio, recordingBuffer)
                      /\ recordingBuffer' = <<>>
                      /\ isSpeaking'
                 ELSE /\ recordingBuffer' = recordingBuffer
                      /\ lastSpeechTime' = lastSpeechTime
                      /\ trips' = trips]_vars

\* two different frames above the threshold, a frame at the threshold 750 ms
\* later that emits nothing, and one 2250 ms later that emits the utterance
C11_Witness ==
    /\ Len(trips) = 1
    /\ trips[1].audio = <<2, 0, 2, 2>>
    /\ frameCount = 4
    /\ now - lastSpeechTime = 3000
    /\ recordingBuffer = <<>> /\ isSpeaking

\* a frame whose RMS is at or below the silence threshold
AtOrBelowThreshold(f) == SumOfSquares(f) <= Len(f) * SILENCE_THRESHOLD * SILENCE_THRESHOLD

\* C12: a frame whose RMS is at or below the threshold, delivered while the
\* buffer is empty, emits no utterance and leaves the buffer empty and the
\* busy flag as it was, whatever the time elapsed; so a run of such frames
\* from an empty buffer never emits.
C12_SilenceNeverEmits ==
    [][\A f \in Frames, gap \in Gaps :
         (/\ recordingBuffer = <<>>
          /\ AtOrBelowThreshold(f)
          /\ \E n \in StartCalls : OnAudioProcess(n, f, gap)) =>
             /\ recordingBuffer' = <<>>
             /\ trips' = trips
             /\ isSpeaking' = isSpeaking]_vars

\* a listening segmenter that has only ever had quiet frames, the latest one
\* more than 1500 ms after the start: nothing buffered, nothing emitted
C12_Witness ==
    /\ isListening /\ ~isSpeaking
    /\ frameCount >= 3 /\ now > SPEECH_TIMEOUT_MS
    /\ lastSpeechTime = 0
    /\ recordingBuffer = <<>> /\ trips = <<>>

\* C13: a frame callback that runs while the busy flag is set leaves the
\* buffer, the last-speech timestamp and the round trips as they were,
\* whatever the frame and the time elapsed.
C13_FramesDroppedWhileBusy ==
    [][\A f \in Frames, gap \in Gaps :
         (isSpeaking /\ \E n \in StartCalls : OnAudioProcess(n, f, gap)) =>
             /\ recordingBuffer' = recordingBuffer
             /\ lastSpeechTime' = lastSpeechTime
             /\ trips' = trips
             /\ isSpeaking']_vars

\* a busy segmenter whose utterance is still with the server and that has had
\* frame callbacks since it was emitted (an emitting callback comes at most
\* 3000 ms after the last frame above the threshold)
C13_Witness ==
    /\ isListening /\ isSpeaking
    /\ Len(trips) = 1 /\ trips[1].phase = "fetch"
    /\ now - lastSpeechTime > 3000
    /\ recordingBuffer = <<>>

\* C14: every step that ends a round trip (failed fetch, error reply, reply
\* without audio, unreadable audio, refused play(), playback error, playback
\* end) leaves the busy flag cleared, and every utterance handed to
\* sendAudioToServer eventually reaches such a step.
C14_BusyFlagEventuallyCleared ==
    /\ [][\A i \in DOMAIN trips :
            (trips[i].phase \in InFlightPhases /\ trips'[i].phase \notin InFlightPhases)
                => ~isSpeaking']_vars
    /\ \A i \in 1 .. MaxUtterances :
           (i \in DOMAIN trips /\ trips[i].phase = "fetch")
               ~> (/\ i \in DOMAIN trips
                   /\ trips[i].phase \notin InFlightPhases
                   /\ ~isSpeaking)

\* round trips that ended in each of the four ways while the segmenter was
\* still listening and free again
C14_Witness ==
    /\ isListening /\ ~isSpeaking
    /\ Len(trips) = 3
    /\ {trips[i].phase : i \in DOMAIN trips} = {"failed", "blocked", "ended"}

\* this step is a frame callback that ends the utterance being accumulated
Finalization ==
    /\ recordingBuffer # <<>> /\ recordingBuffer' = <<>>
    /\ \E n \in StartCalls, f \in Frames, gap \in Gaps : OnAudioProcess(n, f, gap)

\* C15: every utterance handed to sendAudioToServer comes from a buffer of at
\* least one frame and has at least one sample; a finalization whose frames
\* hold samples hands over all of them, and one whose concatenation is empty
\* hands over nothing and leaves the segmenter listening and not busy.
C15_NoEmptyUtterance ==
    [][/\ \A i \in DOMAIN trips' : Len(trips'[i].audio) > 0
       /\ Len(trips') > Len(trips) => Finalization
       /\ Finalization =>
             IF SampleCount(recordingBuffer) > 0
             THEN /\ Len(trips') = Len(trips) + 1
                  /\ Len(trips'[Len(trips')].audio) = SampleCount(recordingBuffer)
             ELSE trips' = trips /\ isListening' /\ ~isSpeaking']_vars

\* a second utterance emitted by the session that emitted the first
C15_Witness ==
    /\ Len(trips) = 2
    /\ trips[1].audio = <<2, 2>> /\ trips[2].audio = <<2, 0>>
    /\ isListening /\ starts[2] = "idle"

\* this step is a call of stopListening that gets past its first line: the
\* stop button, or the catch block of startListening
StopListeningCalled ==
    \/ StopClicked
    \/ \E k \in StartCalls : ResumeRejected(k)
    \/ \E k \in StartCalls : GetUserMediaRejected(k)
    \/ \E k \in StartCalls : audioContext = 0 /\ GetUserMediaResolved(k)

\* nothing of a listening session is left
Released ==
    /\ ~isListening
    /\ mediaStream = 0 /\ scriptProcessor = 0
    /\ recordingBuffer = <<>>
    /\ \A k \in StartCalls : streams[k] # "live"
    /\ \A k \in StartCalls : nodes[k].state # "attached"

\* C16: when stopListening returns the segmenter is not listening, holds no
\* stream and no node, its buffer is empty, no capture stream has a live
\* track and no processing node is still connected; this also holds in the
\* states where the call returns on its first line.
C16_StopReleasesEverything ==
    [][/\ StopListeningCalled => Released'
       /\ (~isListening /\ mediaStream = 0) => Released]_vars

\* the segmenter of the current state, with no utterance handed over yet
Segmenter ==
    [buffer |-> recordingBuffer, last |-> lastSpeechTime, busy |-> isSpeaking,
     listening |-> isListening, sent |-> <<>>]

\* this step completes a start: the segmenter begins to listen
CycleBegins == ~isListening /\ isListening'

\* the frame callbacks of the model are the function ProcessFrame
FrameCallbackIsProcessFrame ==
    [][\A f \in Frames, gap \in Gaps :
         (\E n \in StartCalls : OnAudioProcess(n, f, gap)) =>
             /\ Segmenter' = [ProcessFrame(Segmenter, f, now') EXCEPT !.sent = <<>>]
             /\ trips' = trips \o [i \in DOMAIN ProcessFrame(Segmenter, f, now').sent |->
                                     [phase |-> "fetch",
                                      audio |-> ProcessFrame(Segmenter, f, now').sent[i]]]]_vars

C18_FailedStartLeavesNothing ==
    [][\A k \in StartCalls :
         GetUserMediaRejected(k) =>
             /\ ~isListening'
             /\ audioContext' = 0 /\ contexts'[k] # "running"
             /\ mediaStream' = 0 /\ scriptProcessor' = 0
             /\ recordingBuffer' = recordingBuffer
             /\ isSpeaking' = isSpeaking]_vars

\* what a request's relay session owns, and its outcome
SessionOf(r) ==
    <<responseAudioChunks[r], isSessionConfigured[r], hasReceivedData[r],
      connectionTimeout[r], sent[r], closeCalls[r], readyState[r], promise[r],
      handler[r], httpResponses[r]>>

\* C19: a step of one request (its route handler, its socket's events, its
\* timer) leaves the fragment list, the flags, the timer, the sent messages,
\* the promise and the response of every other request as they were, and a
\* 200 reply carries the fragments delivered to its own session and no other.
C19_SessionsAreIndependent ==
    [][\A r \in Requests :
         /\ \/ \A o \in Requests \ {r} : SessionOf(o)' = SessionOf(o)
            \/ ~PairStep(r)
         /\ (httpResponses'[r] # <<>> /\ httpResponses'[r][1].status = 200) =>
                httpResponses'[r][1].audio = Join(FragmentsBeforeDone(r))']_vars

\* two sessions open at the same time, one answered with its two fragments
\* and the other, which received none, with an empty payload
C19_Witness ==
    /\ httpResponses["r1"] = <<Ok("AAAAAA")>>
    /\ httpResponses["r2"] = <<Ok("")>>
    /\ rxFragments["r1"] = <<"AAA", "AAA">> /\ rxFragments["r2"] = <<>>

\* C20: a session holds fragments only after its session.created was
\* received, and it has resolved only after that event was received and the
\* three control messages were sent: a response.audio.delta or a
\* response.done arriving earlier adds nothing and resolves nothing.
C20_ResolvesOnlyAfterConfiguration ==
    \A r \in Requests :
        /\ responseAudioChunks[r] # <<>> => isSessionConfigured[r]
        /\ promise[r].state = "resolved" =>
               /\ isSessionConfigured[r]
               /\ \A t \in ControlTypes : SentCount(r, t) = 1

\* C21: a rejected session was never closed with the normal-closure code
\* 1000 (its close calls carry an abnormal code), and a resolved session was
\* closed with 1000 and no other code.
C21_RejectionClosesAbnormally ==
    \A r \in Requests :
        /\ promise[r].state = "rejected" =>
               \A i \in DOMAIN closeCalls[r] : closeCalls[r][i] # 1000
        /\ promise[r].state = "resolved" =>
               \A i \in DOMAIN closeCalls[r] : closeCalls[r][i] = 1000

\* C22: a timer that fires on a socket still connecting requests its close
\* and rejects the exchange with the timeout message; a socket error on a
\* socket still connecting rejects the exchange with that error and disarms
\* the timer; and an exchange rejected with the timeout message is
\* eventually answered 500 with that message, and with nothing else.
C22_ConnectTimeoutAndConnectError ==
    /\ [][\A r \in Requests :
            /\ (readyState[r] = "CONNECTING" /\ ConnectionTimeoutFires(r)) =>
                   /\ readyState'[r] = "CLOSING"
                   /\ Len(closeCalls'[r]) = Len(closeCalls[r]) + 1
                   /\ promise'[r] = Rejected(TimeoutMessage)
            /\ \A err \in SocketErrors :
                   (readyState[r] = "CONNECTING" /\ WsError(r, err)) =>
                       /\ promise'[r] = Rejected(err)
                       /\ connectionTimeout'[r] = "cleared"
            /\ (promise[r] = Rejected(TimeoutMessage) /\ httpResponses'[r] # <<>>) =>
                   httpResponses'[r] = <<InternalError(TimeoutMessage)>>]_vars
    /\ \A r \in Requests :
           (promise[r] = Rejected(TimeoutMessage))
               ~> (httpResponses[r] = <<InternalError(TimeoutMessage)>>)

\* a socket that never opened, timed out and answered 500; the error the
\* aborted handshake emitted afterwards changed nothing
C22_Witness ==
    \E r \in Requests :
        /\ ~established[r] /\ errorEmitted[r]
        /\ connectionTimeout[r] = "fired"
        /\ httpResponses[r] = <<InternalError(TimeoutMessage)>>

\* the types the message handler names
KnownTypes ==
    {"session.created", "response.audio.delta", "response.text.delta",
     "response.done", "error", "session.error"}

\* a message that is not JSON, a response.text.delta, or of a type the
\* handler does not name
Skippable(m) ==
    ~m.json \/ m.type = "response.text.delta" \/ m.type \notin KnownTypes

\* this step is the message handler of r running on m
MessageHandled(r, m) ==
    \/ OnSessionCreated(r, m) \/ OnAudioDelta(r, m) \/ OnResponseDone(r, m)
    \/ OnErrorEvent(r, m) \/ OnIgnoredMessage(r, m)

\* C23: the message handler, run on a message that is not JSON, is a
\* response.text.delta or has a type it does not name, leaves the fragment
\* list, the configured flag, the sent messages, the socket, the timer and
\* the promise as they were.
C23_SkippedMessagesChangeNothing ==
    [][\A r \in Requests, m \in UpstreamMessages :
         (Skippable(m) /\ MessageHandled(r, m)) =>
             /\ responseAudioChunks'[r] = responseAudioChunks[r]
             /\ isSessionConfigured'[r] = isSessionConfigured[r]
             /\ sent'[r] = sent[r]
             /\ readyState'[r] = readyState[r] /\ closeCalls'[r] = closeCalls[r]
             /\ connectionTimeout'[r] = connectionTimeout[r]
             /\ promise'[r] = promise[r]
             /\ httpResponses'[r] = httpResponses[r]]_vars

\* an open session that has had three messages, all of them skipped, and is
\* still pending with nothing sent and nothing collected
C23_Witness ==
    \E r \in Requests :
        /\ msgCount = 3 /\ hasReceivedData[r]
        /\ rxFragments[r] = <<>> /\ rxCreated[r] = 0 /\ rxDoneAt[r] = -1
        /\ readyState[r] = "OPEN" /\ promise[r] = Pending
        /\ sent[r] = <<>> /\ responseAudioChunks[r] = <<>>

\* C24: at any time at most one capture stream has live tracks and at most
\* one processing node is connected with a frame callback.
C24_OneStreamOneNode ==
    /\ Cardinality({k \in StartCalls : streams[k] = "live"}) <= 1
    /\ Cardinality({k \in StartCalls : nodes[k].state = "attached"}) <= 1

\* a listening, non-busy segmenter with an utterance under way gets a frame
\* at or below the threshold
QuietFrameInUtterance(f, gap) ==
    /\ AtOrBelowThreshold(f)
    /\ recordingBuffer # <<>>
    /\ FrameProcessed(f, gap)

\* C25: a frame at or below the threshold that arrives while an utterance is
\* under way and does not end it (between two bursts, or in the trailing
\* silence) is kept for the utterance: it is appended to the buffer.
C25_SilenceIsIncluded ==
    [][\A f \in Frames, gap \in Gaps :
         (QuietFrameInUtterance(f, gap) /\ trips' = trips) =>
             recordingBuffer' = Append(recordingBuffer, f)]_vars

\* C25, amended: such a frame is discarded: it leaves the buffer as it is,
\* and the frame that ends the utterance adds no sample either, so the
\* utterance has the samples of the frames above the threshold and no other.
C25_SilenceIsDiscarded ==
    [][\A f \in Frames, gap \in Gaps :
         QuietFrameInUtterance(f, gap) =>
             IF trips' = trips
             THEN recordingBuffer' = recordingBuffer
             ELSE /\ Len(trips'[Len(trips')].audio) = SampleCount(recordingBuffer)
                  /\ \A j \in DOMAIN recordingBuffer :
                         AboveThreshold(recordingBuffer[j])]_vars

\* four callbacks, 750 ms apart until the last frame above the threshold and
\* the last one 2250 ms after it: the utterance has the samples of two frames
C25_Witness ==
    /\ frameCount = 4 /\ lastSpeechTime = 2250 /\ now = 4500
    /\ Len(trips) = 1 /\ Len(trips[1].audio) = 4
    /\ starts[2] = "idle"

\* an utterance is handed to sendAudioToServer and accepted
HandOff == Len(trips') = Len(trips) + 1

\* C26: while the busy flag is set the buffer is empty; the step that hands
\* an utterance over empties the buffer of exactly the frames it hands over,
\* and the buffer otherwise only grows by the frame being delivered or is
\* emptied, so no captured frame is part of two utterances.
C26_BufferClearedAtHandOff ==
    /\ [](isSpeaking => recordingBuffer = <<>>)
    /\ [][(HandOff =>
               /\ recordingBuffer # <<>>
               /\ trips'[Len(trips')].audio = concatenateFloat32Arrays(recordingBuffer)
               /\ recordingBuffer' = <<>>)
           /\ (recordingBuffer' # recordingBuffer =>
               \/ recordingBuffer' = <<>>
               \/ \E f \in Frames : recordingBuffer' = Append(recordingBuffer, f))]_vars

\* a second utterance was handed over while the first one is still known:
\* two utterances, the busy flag set, the buffer empty
C26_Witness ==
    /\ Len(trips) = 2 /\ isSpeaking /\ recordingBuffer = <<>>
    /\ trips[2].phase = "fetch"
    /\ trips[1].audio # <<>> /\ trips[2].audio # <<>>

\* C27: while the segmenter is stopped (from a stopListening, or before the
\* first start, until a start completes) the buffer is empty, and no step
\* taken in a stopped state accumulates a frame or hands an utterance over;
\* in particular the callback of a disconnected node that still runs
\* changes neither the buffer, the last-speech time, the flag nor the
\* utterances.
C27_NothingCapturedWhileStopped ==
    /\ [](~isListening => recordingBuffer = <<>>)
    /\ [][~isListening =>
            /\ recordingBuffer' = <<>>
            /\ Len(trips') = Len(trips)
            /\ \A f \in Frames, gap \in Gaps :
                   (\E n \in StartCalls : OnAudioProcess(n, f, gap)) =>
                       UNCHANGED <<recordingBuffer, lastSpeechTime, isSpeaking, trips>>]_vars

\* speech was being accumulated, stop was pressed, and the callback that was
\* already queued for the disconnected node has run: three callbacks, the
\* last one after the stop, no utterance, the buffer empty
C27_Witness ==
    /\ ~isListening /\ frameCount = 3 /\ lastSpeechTime = now - 750
    /\ nodes[1].state = "detached" /\ starts[1] = "done" /\ starts[2] = "idle"
    /\ recordingBuffer = <<>> /\ trips = <<>>

\* C28: the close handler leaves the outcome, the fragment list, the
\* configured flag, the reply and the frames sent as they were and leaves
\* no timer armed; nothing settles the exchange once the socket is closed;
\* so a session whose socket is closed with no error event, no
\* response.done and no close asked for by the bridge (which goes with every
\* resolve, API error and timeout) is pending, with its timer disarmed.
C28_CloseNeverSettles ==
    /\ [][\A r \in Requests :
            /\ WsClose(r) =>
                   /\ promise'[r] = promise[r]
                   /\ responseAudioChunks'[r] = responseAudioChunks[r]
                   /\ isSessionConfigured'[r] = isSessionConfigured[r]
                   /\ httpResponses'[r] = httpResponses[r]
                   /\ sent'[r] = sent[r]
                   /\ connectionTimeout'[r] # "armed"
            /\ readyState[r] = "CLOSED" =>
                   /\ promise'[r] = promise[r]
                   /\ connectionTimeout'[r] = connectionTimeout[r]]_vars
    /\ [](\A r \in Requests :
            (/\ readyState[r] = "CLOSED"
             /\ ~errorEmitted[r] /\ rxDoneAt[r] = -1 /\ closeCalls[r] = <<>>) =>
                /\ promise[r] = Pending
                /\ connectionTimeout[r] = "cleared")

\* the upstream closed the socket after a configured session got fragments
\* but no response.done: the exchange is pending, the request unanswered
C28_Witness ==
    \E r \in Requests :
        /\ readyState[r] = "CLOSED" /\ ~errorEmitted[r] /\ rxDoneAt[r] = -1
        /\ isSessionConfigured[r] /\ responseAudioChunks[r] # <<>>
        /\ promise[r] = Pending /\ httpResponses[r] = <<>>
        /\ connectionTimeout[r] = "cleared"

\* this step is one of startListening (any of its parts) or stopListening
StartOrStopStep ==
    \/ \E k \in StartCalls : StartListening(k)
    \/ \E k \in StartCalls : ResumeResolved(k)
    \/ \E k \in StartCalls : ResumeRejected(k)
    \/ \E k \in StartCalls : GetUserMediaResolved(k)
    \/ \E k \in StartCalls : GetUserMediaRejected(k)
    \/ StopClicked

\* the phases in which a round trip is over
CompletedPhases == {"failed", "blocked", "ended", "error"}

\* this step ends round trip i: a catch block or a playback handler runs
Completes(i) ==
    /\ i \in DOMAIN trips
    /\ trips'[i].phase # trips[i].phase
    /\ trips'[i].phase \in CompletedPhases

\* the flag is set only when an utterance is handed over, cleared only by a
\* step that ends some round trip, and left alone by start and stop
C29_FlagSetAndClearedByRoundTrips ==
    [][/\ StartOrStopStep => isSpeaking' = isSpeaking
       /\ (~isSpeaking /\ isSpeaking') => HandOff
       /\ (isSpeaking /\ ~isSpeaking') => \E i \in DOMAIN trips : Completes(i)]_vars

\* C29: start and stop leave the busy flag as it is; it is set only when an
\* utterance is handed to sendAudioToServer and cleared only by the step
\* that ends the round trip of that utterance (the last one handed over); so
\* the flag stays set, and frames are dropped, for as long as that round
\* trip is in flight, whether or not the segmenter was stopped and restarted
\* meanwhile.
C29_FlagOwnedByUtteranceInFlight ==
    /\ C29_FlagSetAndClearedByRoundTrips
    /\ [][(isSpeaking /\ ~isSpeaking') => Completes(Len(trips))]_vars
    /\ [](trips # <<>> /\ trips[Len(trips)].phase \in InFlightPhases => isSpeaking)

====
